---- MODULE Spec2Model ----
(***************************************************************************)
(* Live-session orchestration hooks of the interview recorder.             *)
(*                                                                         *)
(* Two Groq implementations of useLiveSession are modelled:                *)
(*   "chunk"    src/hooks/Grok_useLiveSession.ts  (one MediaRecorder per   *)
(*              10 s segment, restarted from its onstop handler)           *)
(*   "interval" src/hooks/useLiveSession.ts       (one MediaRecorder with  *)
(*              a 3 s timeslice, drained by a 3 s setInterval)             *)
(* Strings are sequences of one-character strings, so that trim(), length  *)
(* and concatenation are computed as the code computes them.               *)
(* JavaScript runs every handler to completion; an action is one handler   *)
(* run, or the continuation of an async handler after an await.            *)
(***************************************************************************)
EXTENDS Integers, Sequences, FiniteSets, TLC

VARIABLES
    variant,                  \* which implementation of the hook is mounted
    status,                   \* useState status
    hostInterjection,         \* useState hostInterjection
    currentTranscript,        \* useState currentTranscript
    mediaRecorderRef,         \* slot of the recorder referenced, 0 = null
    audioChunksRef,           \* sizes of the blobs collected
    groqClientRef,            \* TRUE when a client object is stored
    currentTranscriptRef,
    isLivePausedRef,
    conversationHistoryRef,
    recordingTimeoutRef,      \* "pending", or "idle": null, fired or cleared
    silenceTimeoutRef,        \* "pending", or "idle": null, fired or cleared
    lastTranscriptLengthRef,
    consecutiveFailuresRef,
    transcriptionIntervalRef, \* "active", or "idle": null or cleared
    recorders,                \* slot -> "recording", "stopping" or "cut" (stop task queued),
                              \* "awaiting" (onstop at its await) or "inactive"
    orphanTimeouts,           \* pending segment timeouts no ref points to any more
    orphanIntervals,          \* running intervals no ref points to any more
    transcriptionCalls,       \* interval variant: transcription requests awaiting a response
    chatCalls,                \* chat requests awaiting a response (the messages sent)
    interjectionTimeouts,     \* pending setTimeout(() => setHostInterjection(''), 8000)
    systemInstruction,        \* the systemInstruction prop of the latest render
    closureInstruction,       \* slot -> the systemInstruction in the closure of the
                              \* connect() call that started the slot's recorder
    silenceInstruction,       \* the systemInstruction in the closure of the silence
                              \* timeout callback armed last
    orphanSilenceTimeouts,    \* pending silence timeouts no ref points to any more
    failuresSinceReset,       \* history: transcription failures since the last
                              \* success, connect, resume, disconnect or critical reset
    lastOp,                   \* the handler that ran last and the path it took
                              \* ("resume!" = resume() raised)
    isRecording,              \* Recorder: useState isRecording
    isPaused,                 \* Recorder: useState isPaused
    questions,                \* Recorder: useState questions (the question texts)
    currentQuestionIndex,     \* Recorder: useState currentQuestionIndex
    qaPairs,                  \* Recorder: useState qaPairs
    videoRecorder,            \* Recorder: state of mediaRecorderRef.current, "none" = null
    stopEvent,                \* Recorder: TRUE while the recorder's stop event is queued
    onstop,                   \* Recorder: the values of the render in which the onstop
                              \* handler of the recorder was created
    uploads,                  \* Recorder: question files being read by parseQuestionsFile
    downloaded                \* Recorder: the list handed to downloadJSON last

vars == <<variant, status, hostInterjection, currentTranscript, mediaRecorderRef,
          audioChunksRef, groqClientRef, currentTranscriptRef, isLivePausedRef,
          conversationHistoryRef, recordingTimeoutRef, silenceTimeoutRef,
          lastTranscriptLengthRef, consecutiveFailuresRef, transcriptionIntervalRef,
          recorders, orphanTimeouts, orphanIntervals, transcriptionCalls, chatCalls,
          interjectionTimeouts, systemInstruction, closureInstruction,
          silenceInstruction, orphanSilenceTimeouts, failuresSinceReset, lastOp,
          isRecording, isPaused, questions, currentQuestionIndex, qaPairs,
          videoRecorder, stopEvent, onstop, uploads, downloaded>>

\* the state of the Recorder component
recorderVars == <<isRecording, isPaused, questions, currentQuestionIndex, qaPairs,
                  videoRecorder, stopEvent, onstop, uploads, downloaded>>

(***************************************************************************)
(* Bounds of the model.                                                    *)
(***************************************************************************)
MaxRecorders == 2
MaxTranscriptLen == 24
MaxFailures == 1
MaxChatCalls == 1
MaxInterjectionTimeouts == 1
MaxTranscriptionCalls == 1
MaxChunks == 2
MaxHistTranscript == 230
MaxOverlap == 2

(***************************************************************************)
(* Program constants.                                                      *)
(***************************************************************************)
MinBlobSize == 5000
MinTextLength == 2
ChunkSilenceDelta == 15
IntervalSilenceDelta == 0
HistoryWindow == 20
FailureHighWater == 15

Slots == 1..MaxRecorders

(***************************************************************************)
(* Inputs.                                                                 *)
(***************************************************************************)
Hello == <<"H","e","l","l","o"," ","t","h","e","r","e">>
PaddedHello == <<" ">> \o Hello \o <<" ">>
Texts == { <<>>, <<"o","k">>, Hello, PaddedHello }
IntervalTexts == { <<>>, <<" ">>, Hello }
Ohio == <<"I"," ","w","a","s"," ","b","o","r","n"," ","i","n"," ","O","h","i","o">>
Why == <<"W","h","y","?">>
Replies == { <<>>, Why }
SegmentSizes == { 0, 4000, 5000 }
SliceSizes == { 0, 5000 }

\* Recorder.tsx and the question service. A Question is modelled by its text;
\* its id is read nowhere.
\* number of default questions kept (the source lists ten)
MaxDefaultQuestions == 2
Digits == <<"1", "2", "3", "4", "5", "6", "7", "8", "9">>

\* DEFAULT_QUESTIONS, shortened to "Q1", "Q2", ...
DEFAULT_QUESTIONS == [k \in 1..MaxDefaultQuestions |-> <<"Q", Digits[k]>>]

\* questions[currentQuestionIndex]?.text || "" (the index counts from 0)
CurrentQuestionText(qs, index) ==
    IF index + 1 \in 1..Len(qs) THEN qs[index + 1] ELSE <<>>

\* the system instruction: a fixed text ("S") around the current question
SystemInstruction(qs, index) == <<"S", ":">> \o CurrentQuestionText(qs, index)

Instructions == { SystemInstruction(DEFAULT_QUESTIONS, 0),
                  SystemInstruction(DEFAULT_QUESTIONS, 1) }
FirstInstruction == SystemInstruction(DEFAULT_QUESTIONS, 0)

\* the render values of an onstop handler before stopRecording() has set one
NoHandler == [currentTranscript |-> <<>>, questions |-> <<>>,
              currentQuestionIndex |-> 0, qaPairs |-> <<>>]

(***************************************************************************)
(* String helpers.                                                         *)
(***************************************************************************)
IsSpace(ch) == ch \in {" ", "\t", "\n"}

RECURSIVE TrimStart(_)
TrimStart(s) ==
    IF s = <<>> THEN <<>>
    ELSE IF IsSpace(Head(s)) THEN TrimStart(Tail(s)) ELSE s

RECURSIVE TrimEnd(_)
TrimEnd(s) ==
    IF s = <<>> THEN <<>>
    ELSE IF IsSpace(s[Len(s)]) THEN TrimEnd(SubSeq(s, 1, Len(s) - 1)) ELSE s

Trim(s) == TrimEnd(TrimStart(s))

RECURSIVE Sum(_)
Sum(q) == IF q = <<>> THEN 0 ELSE Head(q) + Sum(Tail(q))

Turn(r, c) == [role |-> r, content |-> c]

(***************************************************************************)
(* Pure pieces of the handlers.                                            *)
(***************************************************************************)
\* transcription.text && transcription.text.trim() && newText.length > 2
Qualifies(text) == Trim(text) # <<>> /\ Len(Trim(text)) > MinTextLength

\* a variant of AppendText that writes the separator also before the first text
AppendTextAlwaysSpace(transcript, newText) == transcript \o <<" ">> \o newText

\* currentTranscriptRef.current += (currentTranscriptRef.current ? ' ' : '') + newText
AppendText(transcript, newText) ==
    transcript \o (IF transcript # <<>> THEN <<" ">> ELSE <<>>) \o newText

\* interval variant: transcription.text && transcription.text.trim()
IntervalQualifies(text) == text # <<>> /\ Trim(text) # <<>>

\* interval variant: currentTranscriptRef.current += ' ' + transcription.text
IntervalAppendText(transcript, text) == transcript \o <<" ">> \o text

\* a variant of SilenceDelta without a minimal growth in either hook
SilenceDeltaZero(v) == IntervalSilenceDelta

SilenceDelta(v) == IF v = "chunk" THEN ChunkSilenceDelta ELSE IntervalSilenceDelta

\* a variant of NeedsResponse that also answers growth of exactly the delta
NeedsResponseInclusive(len, baseline, v) == len >= baseline + SilenceDelta(v)

\* the comparison made by the silence timeout callback
NeedsResponse(len, baseline, v) == len > baseline + SilenceDelta(v)

\* Array.prototype.slice(-n)
SliceLast(h, n) == IF Len(h) <= n THEN h ELSE SubSeq(h, Len(h) - n + 1, Len(h))

\* a variant of PushTurns that trims with slice(0, n), keeping the oldest turns
PushTurnsKeepOldest(h, userContent, reply) ==
    LET pushed == h \o <<Turn("user", userContent), Turn("assistant", reply)>>
    IN IF Len(pushed) > HistoryWindow THEN SubSeq(pushed, 1, HistoryWindow) ELSE pushed

\* a variant of PushTurns that trims to one turn less than the window
PushTurnsOddWindow(h, userContent, reply) ==
    LET pushed == h \o <<Turn("user", userContent), Turn("assistant", reply)>>
    IN IF Len(pushed) > HistoryWindow THEN SliceLast(pushed, HistoryWindow - 1) ELSE pushed

\* push of the user and the assistant turn, then the trim to the window
PushTurns(h, userContent, reply) ==
    LET pushed == h \o <<Turn("user", userContent), Turn("assistant", reply)>>
    IN IF Len(pushed) > HistoryWindow THEN SliceLast(pushed, HistoryWindow) ELSE pushed

\* the messages of one chat request
Messages(instruction, h, transcript) ==
    <<Turn("system", instruction)>> \o h \o <<Turn("user", transcript)>>

\* a variant of Cleared that cancels nothing
ClearedNoOp(t) == t

\* clearTimeout on the timer a ref holds
Cleared(t) == "idle"

\* MediaRecorder.state of the recorder in a slot
RecorderState(s) == IF s # 0 /\ recorders[s] = "recording" THEN "recording" ELSE "inactive"

\* mediaRecorderRef.current.stop(): the stop task is queued, state becomes inactive
StopReferenced == IF RecorderState(mediaRecorderRef) = "recording"
                  THEN [recorders EXCEPT ![mediaRecorderRef] = "stopping"]
                  ELSE recorders

FreeSlot == CHOOSE s \in Slots : recorders[s] = "inactive" /\
                                 \A r \in Slots : recorders[r] = "inactive" => s <= r

(***************************************************************************)
(* Initial state: the hook right after it is mounted.                      *)
(***************************************************************************)
Init ==
    /\ variant \in {"chunk", "interval"}
    /\ status = "disconnected"
    /\ hostInterjection = <<>>
    /\ currentTranscript = <<>>
    /\ mediaRecorderRef = 0
    /\ audioChunksRef = <<>>
    /\ groqClientRef = FALSE
    /\ currentTranscriptRef = <<>>
    /\ isLivePausedRef = FALSE
    /\ conversationHistoryRef = <<>>
    /\ recordingTimeoutRef = "idle"
    /\ silenceTimeoutRef = "idle"
    /\ lastTranscriptLengthRef = 0
    /\ consecutiveFailuresRef = 0
    /\ transcriptionIntervalRef = "idle"
    /\ recorders = [s \in Slots |-> "inactive"]
    /\ orphanTimeouts = 0
    /\ orphanIntervals = 0
    /\ transcriptionCalls = 0
    /\ chatCalls = <<>>
    /\ interjectionTimeouts = 0
    /\ systemInstruction = FirstInstruction
    /\ closureInstruction = [s \in Slots |-> FirstInstruction]
    /\ silenceInstruction = FirstInstruction
    /\ orphanSilenceTimeouts = 0
    /\ failuresSinceReset = 0
    /\ lastOp = "mount"
    /\ isRecording = FALSE
    /\ isPaused = FALSE
    /\ questions = DEFAULT_QUESTIONS
    /\ currentQuestionIndex = 0
    /\ qaPairs = <<>>
    /\ videoRecorder = "none"
    /\ stopEvent = FALSE
    /\ onstop = NoHandler
    /\ uploads = <<>>
    /\ downloaded = <<>>

transcriptVars == <<currentTranscript, currentTranscriptRef, lastTranscriptLengthRef>>
chatVars == <<hostInterjection, conversationHistoryRef, chatCalls, interjectionTimeouts>>
intervalVars == <<transcriptionIntervalRef, orphanIntervals, transcriptionCalls>>

(***************************************************************************)
(* Chunk-restart variant: connect, startRecording and the onstop handler.  *)
(***************************************************************************)
\* no connect() call is between its setStatus('connecting') and its return:
\* connect() has no await, so no other handler runs in between
Settled == status # "connecting"

\* a variant of Connect that creates the client before it looks at the key
ConnectChecksKeyLate(hasKey) ==
    /\ variant = "chunk"
    /\ Settled
    /\ isLivePausedRef' = FALSE
    /\ consecutiveFailuresRef' = 0
    /\ groqClientRef' = TRUE
    /\ IF ~hasKey
       THEN /\ status' = "error"
            /\ lastOp' = "connectNoKey"
       ELSE /\ status' = "connecting"
            /\ lastOp' = "connecting"
    /\ failuresSinceReset' = 0
    /\ UNCHANGED <<recorderVars, variant, systemInstruction, closureInstruction, silenceInstruction,
                   orphanSilenceTimeouts,
                   transcriptVars, chatVars, intervalVars, silenceTimeoutRef,
                   audioChunksRef, recorders, mediaRecorderRef, recordingTimeoutRef,
                   orphanTimeouts>>

\* connect(stream) of the chunk-restart variant, up to its try block
Connect(hasKey) ==
    /\ variant = "chunk"
    /\ Settled
    /\ IF ~hasKey
       THEN /\ status' = "error"
            /\ lastOp' = "connectNoKey"
            /\ UNCHANGED <<isLivePausedRef, consecutiveFailuresRef, groqClientRef>>
       ELSE /\ status' = "connecting"
            /\ isLivePausedRef' = FALSE
            /\ consecutiveFailuresRef' = 0
            /\ groqClientRef' = TRUE
            /\ lastOp' = "connecting"
    /\ failuresSinceReset' = IF hasKey THEN 0 ELSE failuresSinceReset
    /\ UNCHANGED <<recorderVars, variant, systemInstruction, closureInstruction, silenceInstruction,
                   orphanSilenceTimeouts,
                   transcriptVars, chatVars, intervalVars, silenceTimeoutRef,
                   audioChunksRef, recorders, mediaRecorderRef, recordingTimeoutRef,
                   orphanTimeouts>>

\* a variant of StreamUsable that accepts a stream without audio tracks
StreamAlwaysUsable(hasAudio) == TRUE

\* the check of stream.getAudioTracks() in connect()
StreamUsable(hasAudio) == hasAudio

\* a variant of ConnectTry that reports 'connected' before it starts recording
ConnectTryStatusFirst(hasAudio) ==
    /\ variant = "chunk"
    /\ status = "connecting"
    /\ status' = "connected"
    /\ lastOp' = "connect"
    /\ UNCHANGED <<recorderVars, variant, systemInstruction, closureInstruction, silenceInstruction,
                   orphanSilenceTimeouts, failuresSinceReset,
                   transcriptVars, chatVars, intervalVars, silenceTimeoutRef,
                   isLivePausedRef, consecutiveFailuresRef, groqClientRef,
                   audioChunksRef, recorders, mediaRecorderRef,
                   recordingTimeoutRef, orphanTimeouts>>

\* the try block of connect(stream), with the startRecording() it calls
ConnectTry(hasAudio) ==
    /\ variant = "chunk"
    /\ status = "connecting"
    /\ IF ~StreamUsable(hasAudio)
       THEN /\ status' = "error"
            /\ lastOp' = "connectFailed"
            /\ UNCHANGED <<audioChunksRef, recorders, mediaRecorderRef,
                           recordingTimeoutRef, orphanTimeouts, closureInstruction>>
       ELSE /\ \E s \in Slots : recorders[s] = "inactive"
            /\ audioChunksRef' = <<>>
            /\ recorders' = [recorders EXCEPT ![FreeSlot] = "recording"]
            /\ mediaRecorderRef' = FreeSlot
            /\ closureInstruction' =
                   [closureInstruction EXCEPT ![FreeSlot] = systemInstruction]
            /\ orphanTimeouts' = orphanTimeouts +
                   (IF recordingTimeoutRef = "pending" THEN 1 ELSE 0)
            /\ recordingTimeoutRef' = "pending"
            /\ status' = "connected"
            /\ lastOp' = "connect"
    /\ UNCHANGED <<recorderVars, variant, systemInstruction, silenceInstruction,
                   orphanSilenceTimeouts, failuresSinceReset,
                   transcriptVars, chatVars, intervalVars, silenceTimeoutRef,
                   isLivePausedRef, consecutiveFailuresRef, groqClientRef>>

\* the end of onstop: clear the segment timeout, restart unless paused
Restart(c, chunks, recs) ==
    /\ orphanTimeouts' = orphanTimeouts
    /\ IF ~isLivePausedRef /\ groqClientRef
       THEN /\ audioChunksRef' = <<>>
            /\ recorders' = [recs EXCEPT ![c] = "recording"]
            /\ mediaRecorderRef' = c
            /\ recordingTimeoutRef' = "pending"
       ELSE /\ audioChunksRef' = chunks
            /\ recorders' = [recs EXCEPT ![c] = "inactive"]
            /\ mediaRecorderRef' = mediaRecorderRef
            /\ recordingTimeoutRef' = Cleared(recordingTimeoutRef)

\* the callback of the 10 s segment timeout, for the timer the ref holds
RecordingTimeout ==
    /\ variant = "chunk"
    /\ Settled
    /\ recordingTimeoutRef = "pending"
    /\ recordingTimeoutRef' = "idle"
    /\ recorders' = StopReferenced
    /\ lastOp' = "recordingTimeout"
    /\ UNCHANGED <<recorderVars, variant, systemInstruction, closureInstruction, silenceInstruction,
                   orphanSilenceTimeouts, failuresSinceReset,
                   status, transcriptVars, chatVars, intervalVars, mediaRecorderRef,
                   audioChunksRef, groqClientRef, isLivePausedRef, silenceTimeoutRef,
                   consecutiveFailuresRef, orphanTimeouts>>

\* the same callback, for a timeout that connect() overwrote without clearing
OrphanTimeout ==
    /\ variant = "chunk"
    /\ Settled
    /\ orphanTimeouts > 0
    /\ orphanTimeouts' = orphanTimeouts - 1
    /\ recorders' = StopReferenced
    /\ lastOp' = "recordingTimeout"
    /\ UNCHANGED <<recorderVars, variant, systemInstruction, closureInstruction, silenceInstruction,
                   orphanSilenceTimeouts, failuresSinceReset,
                   status, transcriptVars, chatVars, intervalVars, mediaRecorderRef,
                   audioChunksRef, groqClientRef, isLivePausedRef, silenceTimeoutRef,
                   consecutiveFailuresRef, recordingTimeoutRef>>

\* a variant of TooSmall that also skips a blob of exactly the minimum size
TooSmallInclusive(size) == size <= MinBlobSize

\* the size test of onstop: a blob below the minimum is not transcribed
TooSmall(size) == size < MinBlobSize

\* the stop task of recorder c: ondataavailable with d bytes, then onstop up to
\* its await (or to its end when nothing is uploaded); lastOp tells the path
\* taken: the blob was sent ("upload"), the blob was below the minimum size
\* ("skipSmall"), or there was no chunk or the session was paused ("skip")
StopTask(c, d) ==
    /\ variant = "chunk"
    /\ Settled
    /\ recorders[c] \in {"stopping", "cut"}
    /\ LET chunks == IF d > 0 THEN Append(audioChunksRef, d) ELSE audioChunksRef
       IN IF Len(chunks) > 0 /\ ~isLivePausedRef
          THEN IF TooSmall(Sum(chunks))
               THEN /\ Restart(c, chunks, recorders)
                    /\ lastOp' = "skipSmall"
               ELSE /\ recorders' = [recorders EXCEPT ![c] = "awaiting"]
                    /\ audioChunksRef' = chunks
                    /\ lastOp' = "upload"
                    /\ UNCHANGED <<mediaRecorderRef, recordingTimeoutRef, orphanTimeouts>>
          ELSE /\ Restart(c, chunks, recorders)
               /\ lastOp' = "skip"
    /\ UNCHANGED <<recorderVars, variant, systemInstruction, closureInstruction, silenceInstruction,
                   orphanSilenceTimeouts, failuresSinceReset,
                   status, transcriptVars, chatVars, intervalVars, groqClientRef,
                   isLivePausedRef, silenceTimeoutRef, consecutiveFailuresRef>>

\* onstop of recorder c after a successful transcription response
TranscriptionOk(c, text, cap) ==
    /\ variant = "chunk"
    /\ Settled
    /\ recorders[c] = "awaiting"
    /\ consecutiveFailuresRef' = 0
    /\ failuresSinceReset' = 0
    /\ IF Qualifies(text)
       THEN /\ Len(AppendText(currentTranscriptRef, Trim(text))) <= cap
            /\ currentTranscriptRef' = AppendText(currentTranscriptRef, Trim(text))
            /\ currentTranscript' = currentTranscriptRef'
            /\ orphanSilenceTimeouts' = orphanSilenceTimeouts +
                   (IF Cleared(silenceTimeoutRef) = "pending" THEN 1 ELSE 0)
            /\ silenceTimeoutRef' = "pending"
            /\ silenceInstruction' = closureInstruction[c]
       ELSE UNCHANGED <<currentTranscriptRef, currentTranscript, silenceTimeoutRef,
                        orphanSilenceTimeouts, silenceInstruction>>
    /\ Restart(c, audioChunksRef, recorders)
    /\ lastOp' = "transcribed"
    /\ UNCHANGED <<recorderVars, variant, systemInstruction, closureInstruction,
                  
                   status, lastTranscriptLengthRef, chatVars, intervalVars,
                   groqClientRef, isLivePausedRef>>

\* a variant of AfterFailure that resets the counter when it reaches the mark
AfterFailureResetAtMark(n) == IF n + 1 >= FailureHighWater THEN 0 ELSE n + 1

\* the failure counter after one more failure: incremented, then reset by the
\* critical branch when it exceeds the high-water mark
AfterFailure(n) == IF n + 1 > FailureHighWater THEN 0 ELSE n + 1

\* a variant of TranscriptionFail in which the error leaves the handler, so
\* that the end of onstop does not run
TranscriptionFailPropagates(c, cap) ==
    /\ variant = "chunk"
    /\ Settled
    /\ recorders[c] = "awaiting"
    /\ consecutiveFailuresRef < cap
    /\ consecutiveFailuresRef' = AfterFailure(consecutiveFailuresRef)
    /\ recorders' = [recorders EXCEPT ![c] = "inactive"]
    /\ lastOp' = "transcribeFailed"
    /\ failuresSinceReset' = IF consecutiveFailuresRef + 1 > FailureHighWater THEN 0
                           ELSE failuresSinceReset + 1
    /\ UNCHANGED <<recorderVars, variant, systemInstruction, closureInstruction, silenceInstruction,
                   orphanSilenceTimeouts,
                   status, transcriptVars, chatVars, intervalVars, groqClientRef,
                   isLivePausedRef, silenceTimeoutRef, audioChunksRef, mediaRecorderRef,
                   recordingTimeoutRef, orphanTimeouts>>

\* onstop of recorder c after a failed transcription call (the catch block)
TranscriptionFail(c, cap) ==
    /\ variant = "chunk"
    /\ Settled
    /\ recorders[c] = "awaiting"
    /\ consecutiveFailuresRef < cap
    /\ consecutiveFailuresRef' = AfterFailure(consecutiveFailuresRef)
    /\ Restart(c, audioChunksRef, recorders)
    /\ lastOp' = "transcribeFailed"
    /\ failuresSinceReset' = IF consecutiveFailuresRef + 1 > FailureHighWater THEN 0
                           ELSE failuresSinceReset + 1
    /\ UNCHANGED <<recorderVars, variant, systemInstruction, closureInstruction, silenceInstruction,
                   orphanSilenceTimeouts,
                   status, transcriptVars, chatVars, intervalVars, groqClientRef,
                   isLivePausedRef, silenceTimeoutRef>>

\* a variant of Disconnect that also clears the Transcript
DisconnectClearsTranscript ==
    /\ variant = "chunk"
    /\ Settled
    /\ recorders' = StopReferenced
    /\ recordingTimeoutRef' = Cleared(recordingTimeoutRef)
    /\ silenceTimeoutRef' = Cleared(silenceTimeoutRef)
    /\ audioChunksRef' = <<>>
    /\ conversationHistoryRef' = <<>>
    /\ consecutiveFailuresRef' = 0
    /\ status' = "disconnected"
    /\ hostInterjection' = <<>>
    /\ currentTranscriptRef' = <<>>
    /\ currentTranscript' = <<>>
    /\ lastOp' = "disconnect"
    /\ failuresSinceReset' = 0
    /\ UNCHANGED <<recorderVars, variant, systemInstruction, closureInstruction, silenceInstruction,
                   orphanSilenceTimeouts,
                   lastTranscriptLengthRef, intervalVars, mediaRecorderRef,
                   groqClientRef, isLivePausedRef, orphanTimeouts, chatCalls,
                   interjectionTimeouts>>

\* disconnect() of the chunk-restart variant
Disconnect ==
    /\ variant = "chunk"
    /\ Settled
    /\ recorders' = StopReferenced
    /\ recordingTimeoutRef' = Cleared(recordingTimeoutRef)
    /\ silenceTimeoutRef' = Cleared(silenceTimeoutRef)
    /\ audioChunksRef' = <<>>
    /\ conversationHistoryRef' = <<>>
    /\ consecutiveFailuresRef' = 0
    /\ status' = "disconnected"
    /\ hostInterjection' = <<>>
    /\ lastOp' = "disconnect"
    /\ failuresSinceReset' = 0
    /\ UNCHANGED <<recorderVars, variant, systemInstruction, closureInstruction, silenceInstruction,
                   orphanSilenceTimeouts,
                   transcriptVars, intervalVars, mediaRecorderRef, groqClientRef,
                   isLivePausedRef, orphanTimeouts, chatCalls, interjectionTimeouts>>

\* the stop() call of pause(): as StopReferenced, but the queued stop task is
\* marked "cut" to tell the segment that pause() cut short from the others
CutReferenced == IF RecorderState(mediaRecorderRef) = "recording"
                 THEN [recorders EXCEPT ![mediaRecorderRef] = "cut"]
                 ELSE recorders

\* a variant of Pause that changes the status
PauseSetsStatus ==
    /\ variant = "chunk"
    /\ Settled
    /\ isLivePausedRef' = TRUE
    /\ recorders' = CutReferenced
    /\ recordingTimeoutRef' = Cleared(recordingTimeoutRef)
    /\ status' = "disconnected"
    /\ lastOp' = "pause"
    /\ UNCHANGED <<recorderVars, variant, systemInstruction, closureInstruction, silenceInstruction,
                   orphanSilenceTimeouts, failuresSinceReset,
                   transcriptVars, chatVars, intervalVars, mediaRecorderRef,
                   audioChunksRef, groqClientRef, silenceTimeoutRef,
                   consecutiveFailuresRef, orphanTimeouts>>

\* pause() of the chunk-restart variant
Pause ==
    /\ variant = "chunk"
    /\ Settled
    /\ isLivePausedRef' = TRUE
    /\ recorders' = CutReferenced
    /\ recordingTimeoutRef' = Cleared(recordingTimeoutRef)
    /\ lastOp' = "pause"
    /\ UNCHANGED <<recorderVars, variant, systemInstruction, closureInstruction, silenceInstruction,
                   orphanSilenceTimeouts, failuresSinceReset,
                   status, transcriptVars, chatVars, intervalVars, mediaRecorderRef,
                   audioChunksRef, groqClientRef, silenceTimeoutRef,
                   consecutiveFailuresRef, orphanTimeouts>>

\* a variant of Resume that keeps the failure counter
ResumeKeepsFailures ==
    /\ variant = "chunk"
    /\ Settled
    /\ isLivePausedRef' = FALSE
    /\ consecutiveFailuresRef' = consecutiveFailuresRef
    /\ lastOp' = "resume!"
    /\ failuresSinceReset' = 0
    /\ UNCHANGED <<recorderVars, variant, systemInstruction, closureInstruction, silenceInstruction,
                   orphanSilenceTimeouts,
                   status, transcriptVars, chatVars, intervalVars, mediaRecorderRef,
                   audioChunksRef, groqClientRef, silenceTimeoutRef, recorders,
                   recordingTimeoutRef, orphanTimeouts>>

\* resume() of the chunk-restart variant: audioOnlyStreamRef is declared
\* nowhere, so evaluating the condition raises a ReferenceError after the two
\* assignments
Resume ==
    /\ variant = "chunk"
    /\ Settled
    /\ isLivePausedRef' = FALSE
    /\ consecutiveFailuresRef' = 0
    /\ lastOp' = "resume!"
    /\ failuresSinceReset' = 0
    /\ UNCHANGED <<recorderVars, variant, systemInstruction, closureInstruction, silenceInstruction,
                   orphanSilenceTimeouts,
                   status, transcriptVars, chatVars, intervalVars, mediaRecorderRef,
                   audioChunksRef, groqClientRef, silenceTimeoutRef, recorders,
                   recordingTimeoutRef, orphanTimeouts>>

(***************************************************************************)
(* Interval-polling variant.                                               *)
(***************************************************************************)
\* connect(stream) of the interval-polling variant, up to its try block
IntervalConnect(hasKey) ==
    /\ variant = "interval"
    /\ Settled
    /\ IF ~hasKey
       THEN /\ status' = "error"
            /\ lastOp' = "connectNoKey"
            /\ UNCHANGED <<isLivePausedRef, groqClientRef>>
       ELSE /\ status' = "connecting"
            /\ isLivePausedRef' = FALSE
            /\ groqClientRef' = TRUE
            /\ lastOp' = "connecting"
    /\ UNCHANGED <<recorderVars, variant, systemInstruction, closureInstruction, silenceInstruction,
                   orphanSilenceTimeouts, failuresSinceReset,
                   transcriptVars, chatVars, intervalVars, silenceTimeoutRef,
                   audioChunksRef, recorders, mediaRecorderRef, recordingTimeoutRef,
                   consecutiveFailuresRef, orphanTimeouts>>

\* the try block of connect(stream) of the interval-polling variant;
\* recorderOk tells whether new MediaRecorder() and start() succeed
IntervalConnectTry(recorderOk) ==
    /\ variant = "interval"
    /\ status = "connecting"
    /\ IF ~recorderOk
       THEN /\ status' = "error"
            /\ lastOp' = "connectFailed"
            /\ UNCHANGED <<audioChunksRef, recorders, mediaRecorderRef,
                           transcriptionIntervalRef, orphanIntervals,
                           closureInstruction>>
       ELSE /\ \E s \in Slots : recorders[s] = "inactive"
            /\ recorders' = [recorders EXCEPT ![FreeSlot] = "recording"]
            /\ mediaRecorderRef' = FreeSlot
            /\ closureInstruction' =
                   [closureInstruction EXCEPT ![FreeSlot] = systemInstruction]
            /\ audioChunksRef' = <<>>
            /\ status' = "connected"
            /\ orphanIntervals' = orphanIntervals +
                   (IF transcriptionIntervalRef = "active" THEN 1 ELSE 0)
            /\ transcriptionIntervalRef' = "active"
            /\ lastOp' = "connect"
    /\ UNCHANGED <<recorderVars, variant, systemInstruction, silenceInstruction,
                   orphanSilenceTimeouts, failuresSinceReset,
                   transcriptVars, chatVars, silenceTimeoutRef, transcriptionCalls,
                   consecutiveFailuresRef, recordingTimeoutRef, orphanTimeouts,
                   isLivePausedRef, groqClientRef>>

\* ondataavailable of recorder c: a 3 s timeslice of d bytes, or the last
\* blob of a recorder that was stopped
DataAvailable(c, d) ==
    /\ variant = "interval"
    /\ Settled
    /\ recorders[c] \in {"recording", "stopping"}
    /\ recorders' = IF recorders[c] = "stopping"
                    THEN [recorders EXCEPT ![c] = "inactive"] ELSE recorders
    /\ IF d > 0 /\ ~isLivePausedRef
       THEN /\ Len(audioChunksRef) < MaxChunks
            /\ audioChunksRef' = Append(audioChunksRef, d)
       ELSE UNCHANGED audioChunksRef
    /\ lastOp' = "dataavailable"
    /\ UNCHANGED <<recorderVars, variant, systemInstruction, closureInstruction, silenceInstruction,
                   orphanSilenceTimeouts, failuresSinceReset,
                   status, transcriptVars, chatVars, intervalVars, mediaRecorderRef,
                   groqClientRef, isLivePausedRef, silenceTimeoutRef, recordingTimeoutRef,
                   consecutiveFailuresRef, orphanTimeouts>>

\* one tick of a 3 s interval, up to its await
IntervalTick(cap) ==
    /\ variant = "interval"
    /\ Settled
    /\ transcriptionIntervalRef = "active" \/ orphanIntervals > 0
    /\ IF Len(audioChunksRef) > 0 /\ ~isLivePausedRef /\ groqClientRef
       THEN /\ transcriptionCalls < cap
            /\ audioChunksRef' = <<>>
            /\ transcriptionCalls' = transcriptionCalls + 1
            /\ lastOp' = "upload"
       ELSE /\ UNCHANGED <<audioChunksRef, transcriptionCalls>>
            /\ lastOp' = "skip"
    /\ UNCHANGED <<recorderVars, variant, systemInstruction, closureInstruction, silenceInstruction,
                   orphanSilenceTimeouts, failuresSinceReset,
                   status, transcriptVars, chatVars, transcriptionIntervalRef,
                   orphanIntervals, mediaRecorderRef, groqClientRef, isLivePausedRef,
                   silenceTimeoutRef, recordingTimeoutRef, consecutiveFailuresRef,
                   orphanTimeouts, recorders>>

\* the tick's continuation after a successful transcription response
IntervalTranscriptionOk(text, cap) ==
    /\ variant = "interval"
    /\ Settled
    /\ transcriptionCalls > 0
    /\ transcriptionCalls' = transcriptionCalls - 1
    /\ IF IntervalQualifies(text)
       THEN /\ Len(IntervalAppendText(currentTranscriptRef, text)) <= cap
            /\ currentTranscriptRef' = IntervalAppendText(currentTranscriptRef, text)
            /\ currentTranscript' = currentTranscriptRef'
            /\ orphanSilenceTimeouts' = orphanSilenceTimeouts +
                   (IF Cleared(silenceTimeoutRef) = "pending" THEN 1 ELSE 0)
            /\ silenceTimeoutRef' = "pending"
            /\ silenceInstruction' = closureInstruction[mediaRecorderRef]
       ELSE UNCHANGED <<currentTranscriptRef, currentTranscript, silenceTimeoutRef,
                        orphanSilenceTimeouts, silenceInstruction>>
    /\ lastOp' = "transcribed"
    /\ UNCHANGED <<recorderVars, variant, systemInstruction, closureInstruction,
                   failuresSinceReset,
                   status, lastTranscriptLengthRef, chatVars,
                   transcriptionIntervalRef, orphanIntervals, mediaRecorderRef,
                   audioChunksRef, groqClientRef, isLivePausedRef, recordingTimeoutRef,
                   consecutiveFailuresRef, orphanTimeouts, recorders>>

\* the tick's continuation after a failed transcription call
IntervalTranscriptionFail ==
    /\ variant = "interval"
    /\ Settled
    /\ transcriptionCalls > 0
    /\ transcriptionCalls' = transcriptionCalls - 1
    /\ lastOp' = "transcribeFailed"
    /\ UNCHANGED <<recorderVars, variant, systemInstruction, closureInstruction, silenceInstruction,
                   orphanSilenceTimeouts, failuresSinceReset,
                   status, transcriptVars, chatVars, transcriptionIntervalRef,
                   orphanIntervals, mediaRecorderRef, audioChunksRef, groqClientRef,
                   isLivePausedRef, silenceTimeoutRef, recordingTimeoutRef,
                   consecutiveFailuresRef, orphanTimeouts, recorders>>

\* disconnect() of the interval-polling variant
IntervalDisconnect ==
    /\ variant = "interval"
    /\ Settled
    /\ recorders' = StopReferenced
    /\ transcriptionIntervalRef' = "idle"
    /\ silenceTimeoutRef' = Cleared(silenceTimeoutRef)
    /\ audioChunksRef' = <<>>
    /\ conversationHistoryRef' = <<>>
    /\ status' = "disconnected"
    /\ hostInterjection' = <<>>
    /\ lastOp' = "disconnect"
    /\ UNCHANGED <<recorderVars, variant, systemInstruction, closureInstruction, silenceInstruction,
                   orphanSilenceTimeouts, failuresSinceReset,
                   transcriptVars, orphanIntervals, transcriptionCalls,
                   mediaRecorderRef, groqClientRef, isLivePausedRef, recordingTimeoutRef,
                   consecutiveFailuresRef, orphanTimeouts, chatCalls, interjectionTimeouts>>

\* pause() and resume() of the interval-polling variant
IntervalSetPaused(p) ==
    /\ variant = "interval"
    /\ Settled
    /\ isLivePausedRef' = p
    /\ lastOp' = IF p THEN "pause" ELSE "resume"
    /\ UNCHANGED <<recorderVars, variant, systemInstruction, closureInstruction, silenceInstruction,
                   orphanSilenceTimeouts, failuresSinceReset,
                   status, transcriptVars, chatVars, intervalVars, mediaRecorderRef,
                   audioChunksRef, groqClientRef, silenceTimeoutRef, recorders,
                   recordingTimeoutRef, consecutiveFailuresRef, orphanTimeouts>>

(***************************************************************************)
(* Handlers the two variants share word for word.                          *)
(***************************************************************************)
\* a variant of ResetTranscript that keeps the silence-comparison baseline
ResetTranscriptKeepsBaseline ==
    /\ Settled
    /\ currentTranscriptRef' = <<>>
    /\ currentTranscript' = <<>>
    /\ conversationHistoryRef' = <<>>
    /\ lastOp' = "reset"
    /\ UNCHANGED <<recorderVars, variant, systemInstruction, closureInstruction, silenceInstruction,
                   orphanSilenceTimeouts, failuresSinceReset,
                   status, hostInterjection, chatCalls, interjectionTimeouts,
                   intervalVars, mediaRecorderRef, audioChunksRef, groqClientRef,
                   isLivePausedRef, silenceTimeoutRef, recorders, recordingTimeoutRef,
                   consecutiveFailuresRef, orphanTimeouts, lastTranscriptLengthRef>>

\* resetTranscript()
ResetTranscript ==
    /\ Settled
    /\ currentTranscriptRef' = <<>>
    /\ currentTranscript' = <<>>
    /\ conversationHistoryRef' = <<>>
    /\ lastTranscriptLengthRef' = 0
    /\ lastOp' = "reset"
    /\ UNCHANGED <<recorderVars, variant, systemInstruction, closureInstruction, silenceInstruction,
                   orphanSilenceTimeouts, failuresSinceReset,
                   status, hostInterjection, chatCalls, interjectionTimeouts,
                   intervalVars, mediaRecorderRef, audioChunksRef, groqClientRef,
                   isLivePausedRef, silenceTimeoutRef, recorders, recordingTimeoutRef,
                   consecutiveFailuresRef, orphanTimeouts>>

\* a variant of Blocked that does not look at the pause flag
BlockedIgnoringPause == ~groqClientRef

\* the guard at the top of generateHostResponse()
Blocked == ~groqClientRef \/ isLivePausedRef

\* the silence timeout callback, with generateHostResponse() up to its await;
\* lastOp tells the path taken: the comparison failed ("silenceQuiet"),
\* generateHostResponse() returned at its guard ("silenceBlocked"), or the
\* chat request was sent ("silenceRequest"); at most cap requests are in flight
SilenceTimeoutWithin(cap) ==
    /\ Settled
    /\ silenceTimeoutRef = "pending"
    /\ silenceTimeoutRef' = "idle"
    /\ IF NeedsResponse(Len(currentTranscriptRef), lastTranscriptLengthRef, variant)
       THEN IF Blocked
            THEN /\ lastTranscriptLengthRef' = Len(currentTranscriptRef)
                 /\ lastOp' = "silenceBlocked"
                 /\ UNCHANGED chatCalls
            ELSE /\ Len(chatCalls) < cap
                 /\ chatCalls' = Append(chatCalls,
                        Messages(silenceInstruction, conversationHistoryRef,
                                 currentTranscriptRef))
                 /\ lastOp' = "silenceRequest"
                 /\ UNCHANGED lastTranscriptLengthRef
       ELSE /\ lastOp' = "silenceQuiet"
            /\ UNCHANGED <<lastTranscriptLengthRef, chatCalls>>
    /\ UNCHANGED <<recorderVars, variant, systemInstruction, closureInstruction, silenceInstruction,
                   orphanSilenceTimeouts, failuresSinceReset,
                   status, currentTranscript, currentTranscriptRef,
                   hostInterjection, conversationHistoryRef, interjectionTimeouts,
                   intervalVars, mediaRecorderRef, audioChunksRef, groqClientRef,
                   isLivePausedRef, recorders, recordingTimeoutRef,
                   consecutiveFailuresRef, orphanTimeouts>>

\* the silence timeout callback with at most MaxChatCalls requests in flight
SilenceTimeout == SilenceTimeoutWithin(MaxChatCalls)

RemoveAt(q, i) == SubSeq(q, 1, i - 1) \o SubSeq(q, i + 1, Len(q))

\* generateHostResponse() after the response of chat call i, then the rest
\* of the silence timeout callback; at most cap clearing timeouts are pending
ChatOkWithin(i, reply, cap) ==
    /\ Settled
    /\ i \in 1..Len(chatCalls)
    /\ chatCalls' = RemoveAt(chatCalls, i)
    /\ IF reply # <<>>
       THEN /\ interjectionTimeouts < cap
            /\ hostInterjection' = reply
            /\ conversationHistoryRef' =
                   PushTurns(conversationHistoryRef, currentTranscriptRef, reply)
            /\ interjectionTimeouts' = interjectionTimeouts + 1
       ELSE UNCHANGED <<hostInterjection, conversationHistoryRef, interjectionTimeouts>>
    /\ lastTranscriptLengthRef' = Len(currentTranscriptRef)
    /\ lastOp' = "chatOk"
    /\ UNCHANGED <<recorderVars, variant, systemInstruction, closureInstruction, silenceInstruction,
                   orphanSilenceTimeouts, failuresSinceReset,
                   status, currentTranscript, currentTranscriptRef, intervalVars,
                   mediaRecorderRef, audioChunksRef, groqClientRef, isLivePausedRef,
                   silenceTimeoutRef, recorders, recordingTimeoutRef,
                   consecutiveFailuresRef, orphanTimeouts>>

\* a variant of ChatOk that schedules no clearing of the Interjection
ChatOkNeverCleared(i, reply) ==
    /\ Settled
    /\ i \in 1..Len(chatCalls)
    /\ chatCalls' = RemoveAt(chatCalls, i)
    /\ IF reply # <<>>
       THEN /\ interjectionTimeouts < MaxInterjectionTimeouts
            /\ hostInterjection' = reply
            /\ conversationHistoryRef' =
                   PushTurns(conversationHistoryRef, currentTranscriptRef, reply)
            /\ interjectionTimeouts' = interjectionTimeouts
       ELSE UNCHANGED <<hostInterjection, conversationHistoryRef, interjectionTimeouts>>
    /\ lastTranscriptLengthRef' = Len(currentTranscriptRef)
    /\ lastOp' = "chatOk"
    /\ UNCHANGED <<recorderVars, variant, systemInstruction, closureInstruction, silenceInstruction,
                   orphanSilenceTimeouts, failuresSinceReset,
                   status, currentTranscript, currentTranscriptRef, intervalVars,
                   mediaRecorderRef, audioChunksRef, groqClientRef, isLivePausedRef,
                   silenceTimeoutRef, recorders, recordingTimeoutRef,
                   consecutiveFailuresRef, orphanTimeouts>>

\* ChatOkWithin with at most MaxInterjectionTimeouts clearing timeouts pending
ChatOk(i, reply) == ChatOkWithin(i, reply, MaxInterjectionTimeouts)

\* a variant of ChatFail that sets the baseline to the length of the user
\* message that was sent
ChatFailSentLength(i) ==
    /\ Settled
    /\ i \in 1..Len(chatCalls)
    /\ chatCalls' = RemoveAt(chatCalls, i)
    /\ lastTranscriptLengthRef' = Len(chatCalls[i][Len(chatCalls[i])].content)
    /\ lastOp' = "chatFailed"
    /\ UNCHANGED <<recorderVars, variant, systemInstruction, closureInstruction, silenceInstruction,
                   orphanSilenceTimeouts, failuresSinceReset,
                   status, currentTranscript, currentTranscriptRef,
                   hostInterjection, conversationHistoryRef, interjectionTimeouts,
                   intervalVars, mediaRecorderRef, audioChunksRef, groqClientRef,
                   isLivePausedRef, silenceTimeoutRef, recorders, recordingTimeoutRef,
                   consecutiveFailuresRef, orphanTimeouts>>

\* generateHostResponse() after chat call i failed (the catch block), then the
\* rest of the silence timeout callback
ChatFail(i) ==
    /\ Settled
    /\ i \in 1..Len(chatCalls)
    /\ chatCalls' = RemoveAt(chatCalls, i)
    /\ lastTranscriptLengthRef' = Len(currentTranscriptRef)
    /\ lastOp' = "chatFailed"
    /\ UNCHANGED <<recorderVars, variant, systemInstruction, closureInstruction, silenceInstruction,
                   orphanSilenceTimeouts, failuresSinceReset,
                   status, currentTranscript, currentTranscriptRef,
                   hostInterjection, conversationHistoryRef, interjectionTimeouts,
                   intervalVars, mediaRecorderRef, audioChunksRef, groqClientRef,
                   isLivePausedRef, silenceTimeoutRef, recorders, recordingTimeoutRef,
                   consecutiveFailuresRef, orphanTimeouts>>

\* the callback of setTimeout(() => setHostInterjection(''), 8000)
ClearInterjection ==
    /\ Settled
    /\ interjectionTimeouts > 0
    /\ interjectionTimeouts' = interjectionTimeouts - 1
    /\ hostInterjection' = <<>>
    /\ lastOp' = "clearInterjection"
    /\ UNCHANGED <<recorderVars, variant, systemInstruction, closureInstruction, silenceInstruction,
                   orphanSilenceTimeouts, failuresSinceReset,
                   status, transcriptVars, conversationHistoryRef, chatCalls,
                   intervalVars, mediaRecorderRef, audioChunksRef, groqClientRef,
                   isLivePausedRef, silenceTimeoutRef, recorders, recordingTimeoutRef,
                   consecutiveFailuresRef, orphanTimeouts>>

\* the component renders the hook with the system instruction of another
\* question; the handlers of a running session keep the closures they have
SetInstruction(i) ==
    /\ Settled
    /\ i # systemInstruction
    /\ systemInstruction' = i
    /\ lastOp' = "render"
    /\ UNCHANGED <<recorderVars, variant, status, transcriptVars, chatVars, intervalVars,
                   mediaRecorderRef, audioChunksRef, groqClientRef, isLivePausedRef,
                   silenceTimeoutRef, recorders, recordingTimeoutRef,
                   consecutiveFailuresRef, orphanTimeouts, closureInstruction,
                   silenceInstruction, orphanSilenceTimeouts, failuresSinceReset>>

(***************************************************************************)
(* Specification: every lifecycle call, timer, recorder event and response *)
(* interleaved, for either variant.                                        *)
(***************************************************************************)
ChunkSteps ==
    \/ \E k \in BOOLEAN : Connect(k)
    \/ \E a \in BOOLEAN : ConnectTry(a)
    \/ RecordingTimeout
    \/ OrphanTimeout
    \/ \E c \in Slots, d \in SegmentSizes : StopTask(c, d)
    \/ \E c \in Slots, t \in Texts : TranscriptionOk(c, t, MaxTranscriptLen)
    \/ \E c \in Slots : TranscriptionFail(c, MaxFailures)
    \/ Disconnect
    \/ Pause
    \/ Resume

IntervalSteps ==
    \/ \E k \in BOOLEAN : IntervalConnect(k)
    \/ \E r \in BOOLEAN : IntervalConnectTry(r)
    \/ \E c \in Slots, d \in SliceSizes : DataAvailable(c, d)
    \/ IntervalTick(MaxTranscriptionCalls)
    \/ \E t \in IntervalTexts : IntervalTranscriptionOk(t, MaxTranscriptLen)
    \/ IntervalTranscriptionFail
    \/ IntervalDisconnect
    \/ \E p \in BOOLEAN : IntervalSetPaused(p)

SharedSteps ==
    \/ ResetTranscript
    \/ SilenceTimeout
    \/ \E i \in 1..MaxChatCalls, r \in Replies : ChatOk(i, r)
    \/ \E i \in 1..MaxChatCalls : ChatFail(i)
    \/ ClearInterjection

Next == ChunkSteps \/ IntervalSteps \/ SharedSteps

Spec == Init /\ [][Next]_vars

\* the chunk-restart variant alone
InitChunk == Init /\ variant = "chunk"
NextChunk == ChunkSteps \/ SharedSteps
SpecChunk == InitChunk /\ [][NextChunk]_vars

\* the interval-polling variant alone
InitInterval == Init /\ variant = "interval"
NextInterval == IntervalSteps \/ SharedSteps
SpecInterval == InitInterval /\ [][NextInterval]_vars

(***************************************************************************)
(* A long interview: one connected session in which every segment is       *)
(* transcribed and every silence window is answered before the next        *)
(* segment's text arrives, so that the history fills its window.           *)
(***************************************************************************)
Quiet == silenceTimeoutRef = "idle" /\ chatCalls = <<>> /\ interjectionTimeouts = 0

NextHist ==
    \/ status = "disconnected" /\ Connect(TRUE)
    \/ ConnectTry(TRUE)
    \/ RecordingTimeout
    \/ \E c \in Slots : StopTask(c, 5000)
    \/ Quiet /\ \E c \in Slots : TranscriptionOk(c, Ohio, MaxHistTranscript)
    \/ status = "disconnected" /\ IntervalConnect(TRUE)
    \/ IntervalConnectTry(TRUE)
    \/ Len(audioChunksRef) = 0 /\ \E c \in Slots : DataAvailable(c, 5000)
    \/ IntervalTick(MaxTranscriptionCalls)
    \/ Quiet /\ IntervalTranscriptionOk(Ohio, MaxHistTranscript)
    \/ SilenceTimeout
    \/ ChatOk(1, Why)
    \/ ClearInterjection

SpecHist == Init /\ [][NextHist]_vars

\* the long interview, in which a timeout that was set does fire
SpecShow == SpecHist /\ WF_vars(ClearInterjection)

(***************************************************************************)
(* An interview over several questions: the caller advances to another     *)
(* question, and resets the Transcript, while the session stays connected. *)
(***************************************************************************)
NextAdvance ==
    \/ status = "disconnected" /\ Connect(TRUE)
    \/ ConnectTry(TRUE)
    \/ RecordingTimeout
    \/ \E c \in Slots : StopTask(c, 5000)
    \/ \E c \in Slots : TranscriptionOk(c, Hello, MaxTranscriptLen)
    \/ SilenceTimeout
    \/ ChatOk(1, Why)
    \/ ChatFail(1)
    \/ ClearInterjection
    \/ ResetTranscript
    \/ Disconnect
    \/ \E i \in Instructions : SetInstruction(i)

SpecAdvance == InitChunk /\ [][NextAdvance]_vars

(***************************************************************************)
(* A slow transcription service: one connected session of the              *)
(* interval-polling variant in which a response may take longer than the   *)
(* 3 s between two ticks.                                                  *)
(***************************************************************************)
NextOverlap ==
    \/ status = "disconnected" /\ IntervalConnect(TRUE)
    \/ IntervalConnectTry(TRUE)
    \/ \E c \in Slots, d \in SliceSizes : DataAvailable(c, d)
    \/ IntervalTick(MaxOverlap)
    \/ \E t \in IntervalTexts : IntervalTranscriptionOk(t, MaxTranscriptLen)
    \/ IntervalTranscriptionFail
    \/ \E p \in BOOLEAN : IntervalSetPaused(p)

SpecOverlap == InitInterval /\ [][NextOverlap]_vars

(***************************************************************************)
(* A bad connection: one connected session in which transcription calls    *)
(* fail in long runs, with now and then a call that succeeds.              *)
(***************************************************************************)
NextFail ==
    \/ status = "disconnected" /\ Connect(TRUE)
    \/ ConnectTry(TRUE)
    \/ RecordingTimeout
    \/ \E c \in Slots, d \in SegmentSizes : StopTask(c, d)
    \/ \E c \in Slots, t \in {<<>>, Hello} : TranscriptionOk(c, t, MaxTranscriptLen)
    \/ \E c \in Slots : TranscriptionFail(c, FailureHighWater + 1)
    \/ Pause
    \/ Resume
    \/ Disconnect

SpecFail == InitChunk /\ [][NextFail]_vars

(***************************************************************************)
(* Properties.                                                             *)
(***************************************************************************)
Responded == lastOp' \in {"transcribed", "transcribeFailed", "chatOk", "chatFailed"}
SilenceFired == lastOp' \in {"silenceQuiet", "silenceBlocked", "silenceRequest"}
Alive == {c \in Slots : recorders[c] # "inactive"}
JoinSpace(transcript, text) == IF transcript = <<>> THEN text ELSE transcript \o <<" ">> \o text

\* C1: chunk-restart variant: while the session stays disconnected, no
\* transcription or chat response changes Transcript, the history or the
\* Interjection.
C1_NoMutationAfterDisconnect ==
    [][(status = "disconnected" /\ status' = "disconnected" /\ Responded)
         => UNCHANGED <<currentTranscriptRef, currentTranscript,
                        conversationHistoryRef, hostInterjection>>]_vars

\* C2: chunk-restart variant: while a non-paused session stays disconnected,
\* no recorder starts recording.
C2_NoCaptureAfterDisconnect ==
    [][(status = "disconnected" /\ status' = "disconnected" /\ ~isLivePausedRef)
         => \A c \in Slots : recorders'[c] = "recording" => recorders[c] = "recording"]_vars

\* C3: both Groq variants: a chat request is sent only in a step taken while
\* the session is not paused, and a silence timer that elapses during a pause
\* sends none.
C3_NoChatRequestWhilePaused ==
    [][/\ Len(chatCalls') > Len(chatCalls) => ~isLivePausedRef /\ ~isLivePausedRef'
       /\ (SilenceFired /\ isLivePausedRef) => chatCalls' = chatCalls]_vars

C3_Witness ==
    /\ lastOp = "silenceBlocked"
    /\ isLivePausedRef
    /\ groqClientRef
    /\ chatCalls = <<>>
    /\ Len(currentTranscriptRef) > SilenceDelta(variant)

\* C4: both Groq variants: a silence timer that elapses while the session is
\* paused leaves Transcript, history, Interjection and lastTranscriptLength
\* as they were.
C4_PausedSilenceIsNoOp ==
    [][(SilenceFired /\ isLivePausedRef)
         => UNCHANGED <<currentTranscriptRef, currentTranscript, conversationHistoryRef,
                        hostInterjection, lastTranscriptLengthRef>>]_vars

\* C5: chunk-restart variant: resume() on a paused, connected session
\* returns without raising and leaves a recorder recording.
C5_ResumeRestartsCapture ==
    [][(lastOp' \in {"resume", "resume!"} /\ status = "connected" /\ isLivePausedRef)
         => /\ lastOp' = "resume"
            /\ \E c \in Slots : recorders'[c] = "recording"]_vars

\* C6: chunk-restart variant: at most one capture cycle (a recorder that is
\* recording, or whose onstop handler has not finished) is alive.
C6_AtMostOneCapture == Cardinality(Alive) <= 1

C8_ResetClearsOnlyTranscriptState ==
    [][lastOp' = "reset" =>
          /\ currentTranscriptRef' = <<>>
          /\ currentTranscript' = <<>>
          /\ conversationHistoryRef' = <<>>
          /\ lastTranscriptLengthRef' = 0
          /\ UNCHANGED <<status, isLivePausedRef, hostInterjection, silenceTimeoutRef,
                         recordingTimeoutRef, orphanTimeouts, interjectionTimeouts,
                         transcriptionIntervalRef, orphanIntervals, consecutiveFailuresRef,
                         recorders, mediaRecorderRef, audioChunksRef, groqClientRef,
                         chatCalls, transcriptionCalls>>]_vars

C8_Witness ==
    /\ lastOp = "reset"
    /\ status = "connected"
    /\ isLivePausedRef
    /\ hostInterjection # <<>>
    /\ silenceTimeoutRef = "pending"
    /\ chatCalls # <<>>

C10_HelloThereIsAnswered ==
    [][(/\ SilenceFired
        /\ currentTranscriptRef = Hello
        /\ lastTranscriptLengthRef = 0
        /\ ~Blocked)
         => /\ Len(chatCalls') = Len(chatCalls) + 1
            /\ LET sent == chatCalls'[Len(chatCalls')]
               IN sent[Len(sent)] = Turn("user", Hello)]_vars

\* C10 as amended: chunk-restart variant: the silence timer that elapses when
\* Transcript is "Hello there" sends no chat request and leaves
\* lastTranscriptLength as it was: 11 characters are not more than 15 above
\* any baseline.
C10_HelloThereIsBelowDelta ==
    [][(SilenceFired /\ currentTranscriptRef = Hello)
         => /\ lastOp' = "silenceQuiet"
            /\ UNCHANGED <<chatCalls, lastTranscriptLengthRef>>]_vars

C10_Witness ==
    /\ lastOp = "silenceQuiet"
    /\ currentTranscriptRef = Hello
    /\ lastTranscriptLengthRef = 0
    /\ ~Blocked
    /\ chatCalls = <<>>

\* C11: chunk-restart variant: a finished segment whose blob is smaller than
\* 5000 bytes is not uploaded: Transcript, the silence timer, the failure
\* counter and the history stay as they were, and the recorder's next cycle is
\* started when the session is not paused; a blob of 5000 bytes or more,
\* finished in a session that is not paused, is uploaded.
C11_SmallSegmentIsSkipped ==
    [][\A c \in Slots, d \in SegmentSizes :
          StopTask(c, d) =>
            LET blob == Sum(IF d > 0 THEN Append(audioChunksRef, d) ELSE audioChunksRef)
            IN /\ blob < 5000 =>
                    /\ recorders'[c] # "awaiting"
                    /\ lastOp' # "upload"
                    /\ UNCHANGED <<currentTranscriptRef, currentTranscript,
                                   silenceTimeoutRef, consecutiveFailuresRef,
                                   conversationHistoryRef>>
                    /\ ~isLivePausedRef =>
                          /\ recorders'[c] = "recording"
                          /\ mediaRecorderRef' = c
                          /\ recordingTimeoutRef' = "pending"
               /\ (blob >= 5000 /\ ~isLivePausedRef) =>
                    /\ recorders'[c] = "awaiting"
                    /\ lastOp' = "upload"]_vars

\* a 4000-byte segment was skipped in a running session and the next
\* recording cycle is under way
C11_Witness ==
    /\ lastOp = "skipSmall"
    /\ status = "connected"
    /\ ~isLivePausedRef
    /\ mediaRecorderRef # 0
    /\ recorders[mediaRecorderRef] = "recording"
    /\ recordingTimeoutRef = "pending"
    /\ audioChunksRef = <<>>
    /\ currentTranscriptRef = <<>>
    /\ silenceTimeoutRef = "idle"

\* C12 (as claimed): chunk-restart variant: in a run of consecutive
\* transcription failures the 15th failure, the one that finds 14 failures
\* counted, takes the critical branch and resets the counter to 0.
C12_FifteenthFailureResets ==
    [][(lastOp' = "transcribeFailed" /\ consecutiveFailuresRef = 14)
         => consecutiveFailuresRef' = 0]_vars

\* C12: chunk-restart variant: in a run of 16 consecutive transcription
\* failures the counter counts the first 15 and the 16th failure, the first
\* that makes the counter exceed 15, takes the critical branch and resets it
\* to 0; every failure of the run leaves the status as it is and starts the
\* recorder's next cycle when the session is not paused.
C12_SixteenthFailureResets ==
    [][\A c \in Slots :
          TranscriptionFail(c, FailureHighWater + 1) =>
            /\ consecutiveFailuresRef < 15 =>
                   consecutiveFailuresRef' = consecutiveFailuresRef + 1
            /\ consecutiveFailuresRef = 15 => consecutiveFailuresRef' = 0
            /\ status' = status
            /\ ~isLivePausedRef =>
                   /\ recorders'[c] = "recording"
                   /\ recordingTimeoutRef' = "pending"]_vars

\* the 16th failure of a run has just reset the counter; the session is
\* still connected and recording
C12_Witness ==
    /\ lastOp = "transcribeFailed"
    /\ consecutiveFailuresRef = 0
    /\ status = "connected"
    /\ mediaRecorderRef # 0
    /\ recorders[mediaRecorderRef] = "recording"
    /\ recordingTimeoutRef = "pending"

\* C13: chunk-restart variant: a failed transcription call does not stop the
\* session: the handler completes, the status, Transcript and the history
\* stay as they were, and the recorder's next cycle is started right away
\* whenever the session is not paused.
C13_FailureKeepsSessionRunning ==
    [][\A c \in Slots :
          TranscriptionFail(c, MaxFailures) =>
            /\ UNCHANGED <<status, currentTranscriptRef, currentTranscript,
                           conversationHistoryRef>>
            /\ ~isLivePausedRef =>
                   /\ recorders'[c] = "recording"
                   /\ mediaRecorderRef' = c
                   /\ audioChunksRef' = <<>>
                   /\ recordingTimeoutRef' = "pending"]_vars

\* one transcription call has failed in a connected session that already has
\* text; the text is kept and the next cycle is recording
C13_Witness ==
    /\ lastOp = "transcribeFailed"
    /\ consecutiveFailuresRef = 1
    /\ status = "connected"
    /\ ~isLivePausedRef
    /\ currentTranscriptRef = Hello
    /\ mediaRecorderRef # 0
    /\ recorders[mediaRecorderRef] = "recording"
    /\ recordingTimeoutRef = "pending"

\* C14: in both variants connect(stream) without an apiKey goes straight to
\* status 'error', never through 'connecting', and returns: no client is
\* created, no recorder is started and no timer or interval is armed; the
\* rest of connect() does not run, as it only runs from status 'connecting'.
C14_NoKeyGoesStraightToError ==
    [][(Connect(FALSE) \/ IntervalConnect(FALSE)) =>
          /\ status # "connecting"
          /\ status' = "error"
          /\ UNCHANGED <<groqClientRef, recorders, mediaRecorderRef, audioChunksRef,
                         recordingTimeoutRef, silenceTimeoutRef,
                         transcriptionIntervalRef, orphanTimeouts, orphanIntervals,
                         isLivePausedRef, consecutiveFailuresRef>>]_vars

\* connect() was called without a key on a freshly mounted hook
C14_Witness ==
    /\ lastOp = "connectNoKey"
    /\ status = "error"
    /\ ~groqClientRef
    /\ mediaRecorderRef = 0
    /\ \A c \in Slots : recorders[c] = "inactive"
    /\ recordingTimeoutRef = "idle"
    /\ transcriptionIntervalRef = "idle"

\* C15: chunk-restart variant: connect(stream) with a credential and a stream
\* that has no audio track ends with status 'error' without ever setting
\* 'connected': no recorder is created or started and no timer is armed.
C15_NoAudioTrackEndsInError ==
    [][ConnectTry(FALSE) =>
          /\ status = "connecting"
          /\ status' = "error"
          /\ UNCHANGED <<recorders, mediaRecorderRef, audioChunksRef,
                         recordingTimeoutRef, orphanTimeouts, silenceTimeoutRef>>]_vars

\* the first connect() of a hook, with a key and a stream without audio
C15_Witness ==
    /\ lastOp = "connectFailed"
    /\ status = "error"
    /\ groqClientRef
    /\ mediaRecorderRef = 0
    /\ \A c \in Slots : recorders[c] = "inactive"
    /\ recordingTimeoutRef = "idle"
    /\ silenceTimeoutRef = "idle"

\* C16: chunk-restart variant: connect(stream) with a credential sets status
\* 'connecting' first; the status becomes 'connected' only from 'connecting',
\* in the step of connect() that has started the first recording cycle (a
\* new recorder is recording, the ref holds it and its segment timeout is
\* armed).
C16_ConnectedOnlyAfterCaptureStarted ==
    [][/\ Connect(TRUE) => status' = "connecting"
       /\ (status' = "connected" /\ status # "connected") =>
             /\ status = "connecting"
             /\ lastOp' = "connect"
             /\ \E c \in Slots :
                   /\ recorders[c] = "inactive"
                   /\ recorders'[c] = "recording"
                   /\ mediaRecorderRef' = c
             /\ recordingTimeoutRef' = "pending"]_vars

\* connect() has completed: connected, with the first cycle recording
C16_Witness ==
    /\ lastOp = "connect"
    /\ status = "connected"
    /\ groqClientRef
    /\ mediaRecorderRef # 0
    /\ recorders[mediaRecorderRef] = "recording"
    /\ recordingTimeoutRef = "pending"
    /\ consecutiveFailuresRef = 0

\* C17: in both variants pause() and resume() leave the status as it is, in
\* whatever state they are called (resume() of the chunk-restart variant
\* included, which raises after its assignments).
C17_PauseResumeKeepStatus ==
    [][(Pause \/ Resume \/ \E p \in BOOLEAN : IntervalSetPaused(p))
         => status' = status]_vars

\* pause() was called on a connected session and the session is still
\* 'connected'
C17_Witness ==
    /\ lastOp = "pause"
    /\ isLivePausedRef
    /\ status = "connected"

\* C18: chunk-restart variant: the segment of a recorder that pause() stopped
\* is never uploaded, whatever is called before its stop task runs, and
\* pause() leaves no segment timeout pending in recordingTimeoutRef.
C18_PausedSegmentNeverUploaded ==
    [][/\ \A c \in Slots : recorders[c] = "cut" => recorders'[c] # "awaiting"
       /\ Pause => recordingTimeoutRef' = "idle"]_vars

IsPrefix(p, q) == Len(p) <= Len(q) /\ SubSeq(q, 1, Len(p)) = p

\* C19: in both variants every handler run other than resetTranscript()
\* leaves the previous Transcript as a prefix of the new Transcript, in the
\* ref and in the rendered state: connect(), disconnect(), pause(), resume(),
\* timers and responses never clear or shorten it.
C19_TranscriptOnlyGrows ==
    [][lastOp' # "reset" =>
          /\ IsPrefix(currentTranscriptRef, currentTranscriptRef')
          /\ IsPrefix(currentTranscript, currentTranscript')]_vars

\* disconnect() was called on a session that had transcribed "Hello there";
\* the text is still there
C19_Witness ==
    /\ lastOp = "disconnect"
    /\ status = "disconnected"
    /\ IsPrefix(Hello, TrimStart(currentTranscriptRef))
    /\ currentTranscript = currentTranscriptRef

\* C20: a failed chat-completion call changes no session state: its handler
\* leaves Transcript, the history, the Interjection and the
\* silence-comparison baseline as they were.
C20_FailedChatChangesNothing ==
    [][(\E i \in 1..MaxChatCalls : ChatFail(i)) =>
          UNCHANGED <<currentTranscriptRef, currentTranscript, conversationHistoryRef,
                      hostInterjection, lastTranscriptLengthRef>>]_vars

\* C21: after a chat response with non-empty content the Interjection equals
\* that content and a timeout that clears it is pending; every Interjection
\* that is set is eventually cleared.
C21_InterjectionShownThenCleared ==
    /\ [][\A i \in 1..MaxChatCalls, r \in Replies :
             (ChatOk(i, r) /\ r # <<>>) =>
                 /\ hostInterjection' = r
                 /\ interjectionTimeouts' = interjectionTimeouts + 1]_vars
    /\ [](hostInterjection # <<>> => interjectionTimeouts > 0)
    /\ (hostInterjection # <<>> ~> hostInterjection = <<>>)

\* the reply "Why?" is on display and its clearing timeout is pending
C21_Witness ==
    /\ lastOp = "chatOk"
    /\ hostInterjection = Why
    /\ interjectionTimeouts = 1

\* C22: chunk-restart variant: at most one silence timer is pending at any
\* time: every qualifying append (trimmed text longer than 2 characters)
\* cancels the pending timer and arms a new one, leaving none behind, and a
\* silence callback runs only for the one timer that is pending, which is
\* then spent.
C22_OneSilenceTimer ==
    /\ [](orphanSilenceTimeouts = 0)
    /\ [][\A c \in Slots, t \in Texts :
             (TranscriptionOk(c, t, MaxTranscriptLen) /\ Len(Trim(t)) > 2) =>
                 /\ silenceTimeoutRef' = "pending"
                 /\ orphanSilenceTimeouts' = 0]_vars
    /\ [][SilenceFired =>
             /\ silenceTimeoutRef = "pending"
             /\ silenceTimeoutRef' = "idle"]_vars

\* a second qualifying text was appended before any chat request was made;
\* one silence timer is pending
C22_Witness ==
    /\ variant = "chunk"
    /\ lastOp = "transcribed"
    /\ currentTranscriptRef = Hello \o <<" ">> \o Hello
    /\ lastTranscriptLengthRef = 0
    /\ silenceTimeoutRef = "pending"
    /\ orphanSilenceTimeouts = 0

\* C23: a silence timer that fires issues a chat request only if the
\* Transcript is longer than the silence-comparison baseline by more than
\* the minimal delta (15 characters in the chunk-restart variant, 0 in the
\* interval-polling variant); when it is not, the callback issues no request
\* and leaves the baseline unchanged.
C23_RequestOnlyAboveDelta ==
    [][SilenceFired =>
          LET delta == IF variant = "chunk" THEN 15 ELSE 0
              grown == Len(currentTranscriptRef) > lastTranscriptLengthRef + delta
          IN /\ chatCalls' # chatCalls => grown
             /\ lastOp' = "silenceRequest" => grown /\ Len(chatCalls') = Len(chatCalls) + 1
             /\ ~grown => UNCHANGED <<chatCalls, lastTranscriptLengthRef>>]_vars

\* two growths of 11 characters each, the first left unanswered by a silence
\* timer that found it below the delta, have added up: the request is sent
C23_Witness ==
    /\ variant = "chunk"
    /\ lastOp = "silenceRequest"
    /\ currentTranscriptRef = Hello \o <<" ">> \o Hello
    /\ lastTranscriptLengthRef = 0
    /\ Len(chatCalls) = 1

\* C24: every chat request carries as its system message the system
\* instruction that is current when the request is issued.
C24_RequestCarriesCurrentInstruction ==
    [][lastOp' = "silenceRequest" =>
          chatCalls'[Len(chatCalls')][1] = Turn("system", systemInstruction)]_vars

\* C25: chunk-restart variant: a transcription response that arrives while
\* the connected session is paused is discarded: it does not append to Transcript and
\* does not arm a silence timer.
C25_ResponseWhilePausedDiscarded ==
    [][\A c \in Slots, t \in Texts :
          (TranscriptionOk(c, t, MaxTranscriptLen) /\ isLivePausedRef
                                                   /\ status = "connected") =>
              UNCHANGED <<currentTranscriptRef, currentTranscript,
                          silenceTimeoutRef>>]_vars

\* C26: interval-polling variant: at most one transcription call is in
\* flight at any time.
C26_OneTranscriptionInFlight == transcriptionCalls <= 1

\* C27: interval-polling variant: while the session stays disconnected no
\* silence timer is armed and no chat request is issued.
C27_NothingAfterDisconnect ==
    [][(status = "disconnected" /\ status' = "disconnected") =>
          /\ silenceTimeoutRef' = "pending" => silenceTimeoutRef = "pending"
          /\ Len(chatCalls') <= Len(chatCalls)]_vars

\* C28: interval-polling variant: a response text that is not blank is
\* appended to Transcript separated by exactly one space from prior content,
\* and appended to an empty Transcript it yields exactly that text, with no
\* leading separator.
C28_IntervalJoinsWithOneSpace ==
    [][\A t \in IntervalTexts :
          (IntervalTranscriptionOk(t, MaxTranscriptLen) /\ Trim(t) # <<>>) =>
              currentTranscriptRef' = JoinSpace(currentTranscriptRef, t)]_vars

\* C29: after every successful connect() the session starts with an empty
\* Transcript.
C29_ConnectStartsEmpty ==
    [][(ConnectTry(TRUE) \/ IntervalConnectTry(TRUE)) =>
          /\ status' = "connected"
          /\ currentTranscriptRef' = <<>>
          /\ currentTranscript' = <<>>]_vars

\* C30: chunk-restart variant: the consecutive-failure counter always equals
\* the number of transcription failures since the most recent successful
\* transcription, connect(), resume(), disconnect() or critical reset, and at
\* the end of every handler it lies in 0..15.
C30_CounterCountsFailures ==
    /\ consecutiveFailuresRef = failuresSinceReset
    /\ consecutiveFailuresRef \in 0..15

\* fifteen failures in a row have been counted
C30_Witness ==
    /\ lastOp = "transcribeFailed"
    /\ failuresSinceReset = 15
    /\ consecutiveFailuresRef = 15

\* ---------------------------------------------------------------------
\* Scenario: a talk in which the speaker keeps talking while chat requests
\* are in flight and while an Interjection is on display (chunk-restart
\* variant)
\* ---------------------------------------------------------------------

\* chat requests in flight at a time, and clearing timeouts pending at a time
MaxTalkCalls == 2
MaxPendingClears == 2
\* cap of the Transcript length in the talk
MaxTalkTranscript == 60

NextTalk ==
    \/ status = "disconnected" /\ Connect(TRUE)
    \/ ConnectTry(TRUE)
    \/ RecordingTimeout
    \/ \E c \in Slots : StopTask(c, MinBlobSize)
    \/ \E c \in Slots : TranscriptionOk(c, Ohio, MaxTalkTranscript)
    \/ SilenceTimeoutWithin(MaxTalkCalls)
    \/ \E i \in 1..MaxTalkCalls, r \in Replies : ChatOkWithin(i, r, MaxPendingClears)
    \/ \E i \in 1..MaxTalkCalls : ChatFail(i)
    \/ ClearInterjection
    \/ ResetTranscript

SpecTalk == InitChunk /\ [][NextTalk]_vars

\* C31: the timers that clear the Interjection all run for the same 8 seconds,
\* so they fire in the order in which they were set, and the Interjection on
\* display was set together with the youngest of them. The claim says that
\* a timer which clears an Interjection on display is that Interjection's own
\* timer: no older timer is still pending when it fires.
C31_ClearedOnlyByOwnTimer ==
    [][ClearInterjection /\ hostInterjection # <<>> => interjectionTimeouts = 1]_vars

\* ---------------------------------------------------------------------
\* Scenario: one long session in which the speaker goes on while a chat
\* request is in flight, so that two requests overlap (chunk-restart variant)
\* ---------------------------------------------------------------------

\* the speaker starts a new segment only when no silence timer is pending, no
\* Interjection is on display and at most one chat request is in flight
Calm == silenceTimeoutRef = "idle" /\ interjectionTimeouts = 0 /\ Len(chatCalls) <= 1

NextPairs ==
    \/ status = "disconnected" /\ Connect(TRUE)
    \/ ConnectTry(TRUE)
    \/ RecordingTimeout
    \/ \E c \in Slots : StopTask(c, MinBlobSize)
    \/ Calm /\ \E c \in Slots : TranscriptionOk(c, Ohio, MaxHistTranscript)
    \/ SilenceTimeoutWithin(MaxTalkCalls)
    \/ \E i \in 1..MaxTalkCalls : ChatOkWithin(i, Why, MaxInterjectionTimeouts)
    \/ ClearInterjection

SpecPairs == InitChunk /\ [][NextPairs]_vars

\* C32: the conversation history has even length, its odd entries are user
\* turns and its even entries assistant turns (so it starts with a user turn
\* and holds no system turn), also after the trim to 20 entries and when two
\* chat requests overlap.
C32_HistoryAlternates ==
    /\ Len(conversationHistoryRef) % 2 = 0
    /\ \A k \in 1..Len(conversationHistoryRef) :
           conversationHistoryRef[k].role = IF k % 2 = 1 THEN "user" ELSE "assistant"

\* the history is full, its first turns were trimmed away (the first user turn
\* kept is longer than the Transcript of the first two segments), and two
\* overlapping requests left two user turns with the same content
C32_Witness ==
    /\ Len(conversationHistoryRef) = HistoryWindow
    /\ Len(conversationHistoryRef[1].content) > 2 * Len(Ohio) + 1
    /\ \E k \in 1..(HistoryWindow - 2) :
           /\ k % 2 = 1
           /\ conversationHistoryRef[k].content = conversationHistoryRef[k + 2].content

\* the content of the last user message of chat request i
SentContent(i) == chatCalls[i][Len(chatCalls[i])].content

\* C33: when a chat request is answered with a response, the user turn pushed
\* onto the conversation history has the content that was sent as the last
\* user message of that request.
C33_UserTurnIsWhatWasSent ==
    [][\A i \in 1..MaxTalkCalls, r \in Replies :
          ChatOkWithin(i, r, MaxPendingClears) /\ r # <<>>
          => conversationHistoryRef'[Len(conversationHistoryRef') - 1].content
                 = SentContent(i)]_vars

\* C35: the Transcript only grows between two resets, so a request whose last
\* user message is not a prefix of the Transcript was issued before a
\* resetTranscript(); the response of such a request adds no turns to the
\* conversation history.
C35_StaleResponseAddsNoTurns ==
    [][\A i \in 1..MaxTalkCalls, r \in Replies :
          ChatOkWithin(i, r, MaxPendingClears)
              /\ ~IsPrefix(SentContent(i), currentTranscriptRef)
          => conversationHistoryRef' = conversationHistoryRef]_vars

\* C34: the silence-comparison baseline never exceeds the length of the
\* Transcript.
C34_BaselineWithinTranscript == lastTranscriptLengthRef <= Len(currentTranscriptRef)

\* a chat request has failed after the Transcript it was issued for was reset
C34_Witness ==
    /\ lastOp = "chatFailed"
    /\ currentTranscriptRef = <<>>
    /\ lastTranscriptLengthRef = 0

(***************************************************************************)
(* Recorder.tsx: the component that owns the question list and the saved   *)
(* Q&A pairs. It mounts the hook of src/hooks/useLiveSession.ts (the       *)
(* interval-polling variant). A handler is a closure of one render: it     *)
(* reads the state values of that render. The click handlers always belong *)
(* to the latest render; the onstop handler of the video recorder belongs  *)
(* to the render in which stopRecording() ran. The video chunks and the    *)
(* alerts are left out.                                                    *)
(***************************************************************************)
\* Q&A pairs kept at most, and question files being read at a time
MaxPairs == 2
MaxUploads == 1

\* questionService: resolve(questions.slice(0, 100))
QuestionLimit == 100

\* a question file: text lines, or a JSON value that is an array of items or
\* something else; an item is a string, an object with a text (text # <<>>) or
\* anything else
TextFile(lines) == [kind |-> "text", array |-> FALSE, items |-> <<>>, lines |-> lines]
JsonFile(array, items) == [kind |-> "json", array |-> array, items |-> items, lines |-> <<>>]
Item(type, text) == [type |-> type, text |-> text]

\* an empty file, which split('\n') turns into one empty line
EmptyFile == TextFile(<< <<>> >>)
\* three questions with a blank line in between
LinesFile == TextFile(<< <<"A", "1">>, <<" ">>, <<"A", "2">>, <<"A", "3">> >>)
\* the JSON text {}
ObjectFile == JsonFile(FALSE, <<>>)
\* the JSON text ["B1", {"text": "B2"}, {"id": "x"}, 7]
ArrayFile == JsonFile(TRUE, << Item("string", <<"B", "1">>), Item("object", <<"B", "2">>),
                              Item("object", <<>>), Item("other", <<>>) >>)
Files == { EmptyFile, LinesFile, ObjectFile, ArrayFile }

\* filter(line => line.trim().length > 0)
NonBlank(line) == Trim(line) # <<>>
\* typeof item === 'string', or typeof item === 'object' && item.text
IsQuestion(item) == item.type = "string" \/ (item.type = "object" /\ item.text # <<>>)

\* parseQuestionsFile(file), when the file could be read
parseQuestionsFile(file) ==
    LET lines == SelectSeq(file.lines, NonBlank)
        parsed == IF file.kind = "json" THEN file.items
                  ELSE [k \in 1..Len(lines) |-> Item("object", lines[k])]
        isArray == file.kind = "text" \/ file.array
        kept == SelectSeq(parsed, IsQuestion)
        found == IF isArray THEN [k \in 1..Len(kept) |-> kept[k].text] ELSE <<>>
    IN SubSeq(found, 1, IF Len(found) < QuestionLimit THEN Len(found) ELSE QuestionLimit)

\* saveCurrentQAPair(): the test for content
HasContent(transcript) == transcript # <<>> /\ Trim(transcript) # <<>>
\* questions[currentQuestionIndex] is undefined, so reading its text raises
NoQuestion(qs, index) == index + 1 \notin 1..Len(qs)
\* saveCurrentQAPair(): the new pair
NewPair(qs, index, transcript) == [Q |-> qs[index + 1], A |-> transcript]

\* mediaRecorder.stop() stops a recorder that records or is paused; on an
\* inactive recorder it changes nothing
CanStop(st) == st \in {"recording", "paused"}

\* startRecording() after `await connectLive(stream)` has resolved
StartRecording ==
    /\ variant = "interval"
    /\ Settled
    /\ ~isRecording
    /\ ~stopEvent
    /\ status \in {"connected", "error"}
    /\ videoRecorder' = "recording"
    /\ isRecording' = TRUE
    /\ isPaused' = FALSE
    /\ currentTranscriptRef' = <<>>
    /\ currentTranscript' = <<>>
    /\ conversationHistoryRef' = <<>>
    /\ lastTranscriptLengthRef' = 0
    /\ lastOp' = "startRecording"
    /\ UNCHANGED <<questions, currentQuestionIndex, qaPairs, stopEvent, onstop, uploads,
                   downloaded, variant, systemInstruction, closureInstruction,
                   silenceInstruction, orphanSilenceTimeouts, failuresSinceReset,
                   status, hostInterjection, chatCalls, interjectionTimeouts,
                   intervalVars, mediaRecorderRef, audioChunksRef, groqClientRef,
                   isLivePausedRef, silenceTimeoutRef, recorders, recordingTimeoutRef,
                   consecutiveFailuresRef, orphanTimeouts>>

\* togglePause()
TogglePause ==
    /\ variant = "interval"
    /\ Settled
    /\ isRecording
    /\ videoRecorder # "none"
    /\ IF isPaused
       THEN /\ videoRecorder' = IF videoRecorder = "paused" THEN "recording"
                                ELSE videoRecorder
            /\ isLivePausedRef' = FALSE
            /\ isPaused' = FALSE
       ELSE /\ videoRecorder' = IF videoRecorder = "recording" THEN "paused"
                                ELSE videoRecorder
            /\ isLivePausedRef' = TRUE
            /\ isPaused' = TRUE
    /\ lastOp' = "togglePause"
    /\ UNCHANGED <<isRecording, questions, currentQuestionIndex, qaPairs, stopEvent,
                   onstop, uploads, downloaded, variant, systemInstruction,
                   closureInstruction, silenceInstruction, orphanSilenceTimeouts,
                   failuresSinceReset, status, transcriptVars, chatVars, intervalVars,
                   mediaRecorderRef, audioChunksRef, groqClientRef, silenceTimeoutRef,
                   recorders, recordingTimeoutRef, consecutiveFailuresRef,
                   orphanTimeouts>>

\* stopRecording(), pressed as the Stop button
StopRecording ==
    /\ variant = "interval"
    /\ Settled
    /\ isRecording
    /\ videoRecorder # "none"
    /\ onstop' = [currentTranscript |-> currentTranscript, questions |-> questions,
                  currentQuestionIndex |-> currentQuestionIndex, qaPairs |-> qaPairs]
    /\ IF CanStop(videoRecorder)
       THEN /\ videoRecorder' = "inactive"
            /\ stopEvent' = TRUE
            /\ lastOp' = "stopRecording"
       ELSE /\ lastOp' = "stopRecordingAgain"
            /\ UNCHANGED <<videoRecorder, stopEvent>>
    /\ UNCHANGED <<isRecording, isPaused, questions, currentQuestionIndex, qaPairs,
                   uploads, downloaded, variant, systemInstruction, closureInstruction,
                   silenceInstruction, orphanSilenceTimeouts, failuresSinceReset,
                   status, transcriptVars, chatVars, intervalVars, mediaRecorderRef,
                   audioChunksRef, groqClientRef, isLivePausedRef, silenceTimeoutRef,
                   recorders, recordingTimeoutRef, consecutiveFailuresRef,
                   orphanTimeouts>>

\* the onstop handler stopRecording() has set, run for the recorder's stop
\* event: disconnectLive(), the two state updates, saveCurrentQAPair() and the
\* downloads, all with the values of the handler's render; lastOp is
\* "videoStopped!" when saveCurrentQAPair() raised for want of a question
VideoStopped ==
    /\ variant = "interval"
    /\ Settled
    /\ stopEvent
    /\ stopEvent' = FALSE
    /\ recorders' = StopReferenced
    /\ transcriptionIntervalRef' = "idle"
    /\ silenceTimeoutRef' = Cleared(silenceTimeoutRef)
    /\ audioChunksRef' = <<>>
    /\ conversationHistoryRef' = <<>>
    /\ status' = "disconnected"
    /\ hostInterjection' = <<>>
    /\ isRecording' = FALSE
    /\ isPaused' = FALSE
    /\ IF HasContent(onstop.currentTranscript)
       THEN IF NoQuestion(onstop.questions, onstop.currentQuestionIndex)
            THEN /\ lastOp' = "videoStopped!"
                 /\ UNCHANGED <<qaPairs, transcriptVars, downloaded>>
            ELSE LET newPair == NewPair(onstop.questions, onstop.currentQuestionIndex,
                                        onstop.currentTranscript)
                 IN /\ Len(qaPairs) < MaxPairs
                    /\ qaPairs' = Append(qaPairs, newPair)
                    /\ currentTranscriptRef' = <<>>
                    /\ currentTranscript' = <<>>
                    /\ lastTranscriptLengthRef' = 0
                    /\ downloaded' = Append(onstop.qaPairs, newPair)
                    /\ lastOp' = "videoStopped"
       ELSE /\ currentTranscriptRef' = <<>>
            /\ currentTranscript' = <<>>
            /\ lastTranscriptLengthRef' = 0
            /\ downloaded' = onstop.qaPairs
            /\ lastOp' = "videoStopped"
            /\ UNCHANGED qaPairs
    /\ UNCHANGED <<questions, currentQuestionIndex, videoRecorder, onstop, uploads,
                   variant, systemInstruction, closureInstruction, silenceInstruction,
                   orphanSilenceTimeouts, failuresSinceReset, orphanIntervals,
                   transcriptionCalls, mediaRecorderRef, groqClientRef, isLivePausedRef,
                   recordingTimeoutRef, consecutiveFailuresRef, orphanTimeouts,
                   chatCalls, interjectionTimeouts>>

\* nextQuestion(): togglePause() when paused, saveCurrentQAPair(), then the
\* next index or stopRecording(); lastOp is "nextQuestion!" when
\* saveCurrentQAPair() raised for want of a question, "nextQuestionLast" when
\* stopRecording() was called
NextQuestion ==
    LET resumed == IF isPaused /\ videoRecorder = "paused" THEN "recording"
                   ELSE videoRecorder
    IN
    /\ variant = "interval"
    /\ Settled
    /\ isRecording
    /\ videoRecorder # "none"
    /\ isLivePausedRef' = IF isPaused THEN FALSE ELSE isLivePausedRef
    /\ isPaused' = FALSE
    /\ IF HasContent(currentTranscript) /\ NoQuestion(questions, currentQuestionIndex)
       THEN /\ videoRecorder' = resumed
            /\ lastOp' = "nextQuestion!"
            /\ UNCHANGED <<qaPairs, transcriptVars, conversationHistoryRef,
                           currentQuestionIndex, systemInstruction, stopEvent, onstop>>
       ELSE /\ IF HasContent(currentTranscript)
               THEN /\ Len(qaPairs) < MaxPairs
                    /\ qaPairs' = Append(qaPairs,
                           NewPair(questions, currentQuestionIndex, currentTranscript))
               ELSE UNCHANGED qaPairs
            /\ currentTranscriptRef' = <<>>
            /\ currentTranscript' = <<>>
            /\ conversationHistoryRef' = <<>>
            /\ lastTranscriptLengthRef' = 0
            /\ IF currentQuestionIndex < Len(questions) - 1
               THEN /\ currentQuestionIndex' = currentQuestionIndex + 1
                    /\ systemInstruction' =
                           SystemInstruction(questions, currentQuestionIndex + 1)
                    /\ videoRecorder' = resumed
                    /\ lastOp' = "nextQuestion"
                    /\ UNCHANGED <<stopEvent, onstop>>
               ELSE /\ onstop' = [currentTranscript |-> currentTranscript,
                                  questions |-> questions,
                                  currentQuestionIndex |-> currentQuestionIndex,
                                  qaPairs |-> qaPairs]
                    /\ IF CanStop(resumed)
                       THEN /\ videoRecorder' = "inactive"
                            /\ stopEvent' = TRUE
                       ELSE /\ videoRecorder' = resumed
                            /\ UNCHANGED stopEvent
                    /\ lastOp' = "nextQuestionLast"
                    /\ UNCHANGED <<currentQuestionIndex, systemInstruction>>
    /\ UNCHANGED <<isRecording, questions, uploads, downloaded, variant,
                   closureInstruction, silenceInstruction, orphanSilenceTimeouts,
                   failuresSinceReset, status, hostInterjection, chatCalls,
                   interjectionTimeouts, intervalVars, mediaRecorderRef, audioChunksRef,
                   groqClientRef, silenceTimeoutRef, recorders, recordingTimeoutRef,
                   consecutiveFailuresRef, orphanTimeouts>>

\* handleFileUpload() up to its await: parseQuestionsFile(file) starts reading
FileChosen(file) ==
    /\ variant = "interval"
    /\ Settled
    /\ Len(uploads) < MaxUploads
    /\ uploads' = Append(uploads, file)
    /\ lastOp' = "fileChosen"
    /\ UNCHANGED <<isRecording, isPaused, questions, currentQuestionIndex, qaPairs,
                   videoRecorder, stopEvent, onstop, downloaded, variant,
                   systemInstruction, closureInstruction, silenceInstruction,
                   orphanSilenceTimeouts, failuresSinceReset, status, transcriptVars,
                   chatVars, intervalVars, mediaRecorderRef, audioChunksRef,
                   groqClientRef, isLivePausedRef, silenceTimeoutRef, recorders,
                   recordingTimeoutRef, consecutiveFailuresRef, orphanTimeouts>>

\* handleFileUpload() after its await: the file was read (readable) and
\* parsed, or reading it failed and the promise was rejected
FileParsed(readable) ==
    /\ variant = "interval"
    /\ Settled
    /\ uploads # <<>>
    /\ uploads' = Tail(uploads)
    /\ IF readable
       THEN /\ questions' = parseQuestionsFile(Head(uploads))
            /\ currentQuestionIndex' = 0
            /\ systemInstruction' = SystemInstruction(parseQuestionsFile(Head(uploads)), 0)
            /\ lastOp' = "fileParsed"
       ELSE /\ lastOp' = "fileFailed"
            /\ UNCHANGED <<questions, currentQuestionIndex, systemInstruction>>
    /\ UNCHANGED <<isRecording, isPaused, qaPairs, videoRecorder, stopEvent, onstop,
                   downloaded, variant, closureInstruction, silenceInstruction,
                   orphanSilenceTimeouts, failuresSinceReset, status, transcriptVars,
                   chatVars, intervalVars, mediaRecorderRef, audioChunksRef,
                   groqClientRef, isLivePausedRef, silenceTimeoutRef, recorders,
                   recordingTimeoutRef, consecutiveFailuresRef, orphanTimeouts>>

\* ---------------------------------------------------------------------
\* Scenario: one interview recorded with the Recorder. A question file is
\* chosen before the interview only, the speaker says "Hello there" at most
\* once per question, and the silence timer does not fire.
\* ---------------------------------------------------------------------
NextRecorder ==
    \/ videoRecorder = "none" /\ status = "disconnected" /\ IntervalConnect(TRUE)
    \/ IntervalConnectTry(TRUE)
    \/ StartRecording
    \/ isRecording /\ currentTranscript = <<>> /\ Len(audioChunksRef) = 0
           /\ \E c \in Slots : DataAvailable(c, MinBlobSize)
    \/ IntervalTick(MaxTranscriptionCalls)
    \/ IntervalTranscriptionOk(Hello, Len(Hello) + 1)
    \/ TogglePause
    \/ StopRecording
    \/ VideoStopped
    \/ NextQuestion
    \/ videoRecorder = "none" /\ \E f \in Files : FileChosen(f)
    \/ \E r \in BOOLEAN : FileParsed(r)

SpecRecorder == InitInterval /\ [][NextRecorder]_vars

\* C36: currentQuestionIndex is a valid index into questions: at least 0 and
\* less than the number of questions.
C36_IndexIsValid == currentQuestionIndex \in 0..(Len(questions) - 1)

\* C37: when Next Question was pressed on the last question (which saved the
\* answer, if there was one, and stopped the recorder), the onstop handler
\* that runs next saves no further pair.
C37_FinalAnswerSavedOnce ==
    [][VideoStopped /\ lastOp = "nextQuestionLast" => qaPairs' = qaPairs]_vars

====
